---------------------------- MODULE Spec2Model ----------------------------
(***************************************************************************)
(* Model of the retrieval-augmented answering pipeline of                  *)
(* rag-poc-template: AgentNodes.wiki_agent / finish_wiki, the LangGraph    *)
(* workflow of AgenticWorkflow, the callers of AgenticWorkflow.run, the    *)
(* batch ingestion of WikiProcessor.create_vector_store, and the file and  *)
(* directory processing of WikiProcessor.                                  *)
(*                                                                         *)
(* Python strings that the code transforms (queries, chat history, model   *)
(* responses, passages) are sequences of one-character strings.  Optional  *)
(* values (None or a string) are records [none, val].                      *)
(*                                                                         *)
(* Environment assumptions: the semantic index answers every search with   *)
(* a list of at most RETRIEVAL_K documents (search_kwargs k), the lexical  *)
(* index likewise (BM25Retriever k); the rank fusion, the rewriter call,   *)
(* the synthesis call and the embedding endpoint may fail.                 *)
(***************************************************************************)
EXTENDS Integers, Sequences, FiniteSets, TLC

(***************************** bounds **************************************)
\* top-K of both retrievers (config.RETRIEVAL_K has no default in the source)
RETRIEVAL_K == 2
\* character budget of the context (config default 30000, scaled down)
CONTEXT_MAX_CHARS == 10
\* number of distinct passages the indices can return
NumDocs == 3

(************************* program constants *******************************)
QUERY_REWRITER_TURNS == 2
PREVIEW_CHARS == 500
batch_size == 64

NO_DOCS_ANSWER == "I couldn't find any matching documents for your query."
NOT_CONFIGURED_ANSWER == "Wiki agent not configured. Please check WIKI_ENDPOINT and WIKI_MODEL in your .env file."
NO_STORE_ANSWER == "Documentation not available."
SEPARATOR == <<"\n", "\n", "-", "-", "-", "\n", "\n">>
REWRITER_HUMAN == <<"Output the rewritten question only.">>

(************************* python helpers **********************************)
Min(a, b) == IF a <= b THEN a ELSE b

None == [none |-> TRUE, val |-> <<>>]
Some(s) == [none |-> FALSE, val |-> s]
\* truthiness of an optional string: None and "" are falsy
Truthy(o) == ~o.none /\ o.val # <<>>

\* s[:k] for k >= 0
Truncate(s, k) == SubSeq(s, 1, Min(k, Len(s)))
\* s[-k:] for k > 0, s[0:] (everything) for k = 0
LastN(s, k) == IF k = 0 THEN s ELSE SubSeq(s, Len(s) - Min(k, Len(s)) + 1, Len(s))
\* s[1:-1]
Slice1m1(s) == SubSeq(s, 2, Len(s) - 1)

Whitespace == {" ", "\n", "\t"}

RECURSIVE LStrip(_)
LStrip(s) == IF s = <<>> THEN s
             ELSE IF Head(s) \in Whitespace THEN LStrip(Tail(s)) ELSE s

RECURSIVE RStrip(_)
RStrip(s) == IF s = <<>> THEN s
             ELSE IF s[Len(s)] \in Whitespace THEN RStrip(SubSeq(s, 1, Len(s) - 1)) ELSE s

\* str.strip()
Strip(s) == RStrip(LStrip(s))

\* str.split("\n"): always at least one (possibly empty) line
RECURSIVE SplitLines(_, _)
SplitLines(s, cur) ==
    IF s = <<>> THEN <<cur>>
    ELSE IF Head(s) = "\n" THEN <<cur>> \o SplitLines(Tail(s), <<>>)
    ELSE SplitLines(Tail(s), Append(cur, Head(s)))

\* sep.join(parts)
RECURSIVE Join(_, _)
Join(parts, sep) ==
    IF parts = <<>> THEN <<>>
    ELSE IF Len(parts) = 1 THEN parts[1]
    ELSE parts[1] \o sep \o Join(Tail(parts), sep)

NonBlank(ln) == Strip(ln) # <<>>

\* [ln for ln in lines if ln.strip()]
RECURSIVE NonBlankLines(_)
NonBlankLines(lines) ==
    IF lines = <<>> THEN <<>>
    ELSE IF NonBlank(Head(lines)) THEN <<Head(lines)>> \o NonBlankLines(Tail(lines))
    ELSE NonBlankLines(Tail(lines))

(**************************** documents ************************************)
\* The passages of the corpus are numbered 1..NumDocs; passage d has d
\* characters, so that contexts of different lengths arise.
DocIds == 1..NumDocs
Letters == <<"a", "b", "c", "d", "e", "f">>
page_content(d) == [i \in 1..d |-> Letters[d]]
metadata(d) == [source |-> <<"kb", d>>, type |-> "wiki", filename |-> <<"f", d>>]

\* ranked result lists of a retriever configured with k = RETRIEVAL_K: no
\* duplicates, at most RETRIEVAL_K entries.  The semantic index returns the
\* passages above the score threshold, here ranked by ascending number; the
\* lexical index returns its top RETRIEVAL_K (or nothing), here ranked by
\* descending number, so that the two rankings disagree and the fusion
\* reorders them.
SemLists == {l \in UNION {[1..n -> DocIds] : n \in 0..RETRIEVAL_K} :
                \A i, j \in 1..Len(l) : i < j => l[i] < l[j]}
LexLists == {l \in UNION {[1..n -> DocIds] : n \in {0, RETRIEVAL_K}} :
                \A i, j \in 1..Len(l) : i < j => l[i] > l[j]}

InList(l, d) == \E i \in 1..Len(l) : l[i] = d
RankIn(l, d) == CHOOSE i \in 1..Len(l) : l[i] = d

(************** EnsembleRetriever: weighted reciprocal rank fusion *********)
\* weights [0.6, 0.4] scaled by 10, rank constant c = 60 (the default of the
\* retriever); a score is the fraction num/den
RRFScore(sem, lex, d) ==
    IF InList(sem, d) /\ InList(lex, d)
    THEN [num |-> 6 * (RankIn(lex, d) + 60) + 4 * (RankIn(sem, d) + 60),
          den |-> (RankIn(sem, d) + 60) * (RankIn(lex, d) + 60)]
    ELSE IF InList(sem, d) THEN [num |-> 6, den |-> RankIn(sem, d) + 60]
    ELSE [num |-> 4, den |-> RankIn(lex, d) + 60]

ScoreGE(a, b) == a.num * b.den >= b.num * a.den

\* unique_by_key over chain(doc_lists): first occurrence kept
RECURSIVE Unique(_, _)
Unique(l, seen) ==
    IF l = <<>> THEN <<>>
    ELSE IF Head(l) \in seen THEN Unique(Tail(l), seen)
    ELSE <<Head(l)>> \o Unique(Tail(l), seen \cup {Head(l)})

\* stable insertion of d into a list sorted by descending score
RECURSIVE InsertByScore(_, _, _, _)
InsertByScore(sorted, d, sem, lex) ==
    IF sorted = <<>> THEN <<d>>
    ELSE IF ScoreGE(RRFScore(sem, lex, Head(sorted)), RRFScore(sem, lex, d))
         THEN <<Head(sorted)>> \o InsertByScore(Tail(sorted), d, sem, lex)
         ELSE <<d>> \o sorted

RECURSIVE SortByScore(_, _, _)
SortByScore(l, sem, lex) ==
    IF l = <<>> THEN <<>>
    ELSE InsertByScore(SortByScore(SubSeq(l, 1, Len(l) - 1), sem, lex), l[Len(l)], sem, lex)

\* ensemble.invoke(query): the fused ranking of the two result lists
EnsembleInvoke(sem, lex) == SortByScore(Unique(sem \o lex, {}), sem, lex)

(*************************** input sets ************************************)
Queries == {<<"q">>, <<"r">>}

\* chat histories: empty, blank but non-empty, one user+assistant exchange
Histories == {<<>>, <<" ">>, <<"u", ":", "q", "\n", "a", ":", "x">>}

\* outcomes of the rewriter model call: the call raises (error, timeout);
\* content is None; content is not a string; content is a text
RewriterResponses ==
    {[kind |-> "raise", text |-> <<>>],
     [kind |-> "none", text |-> <<>>],
     [kind |-> "nonstring", text |-> <<>>]}
    \cup {[kind |-> "text", text |-> t] :
             t \in {<<>>, <<"r">>, <<"\"", "r", "\"">>}}

SynthAnswers == {"A1"}
SynthResponses == {[kind |-> "raise", answer |-> ""]}
                  \cup {[kind |-> "text", answer |-> a] : a \in SynthAnswers}

Callers == {"query", "main"}

(************************** AgentNodes *************************************)
VARIABLES
    cfg,              \* AGENT_CONFIGS["wiki"]: which of endpoint, model, api_key are set
    agents,           \* AgentNodes.agents (names of the initialised agents)
    vector_stores,    \* names of the vector stores handed to AgentNodes
    bm25_retriever,   \* TRUE iff AgentNodes.bm25_retriever is not None
    state,            \* channel values of the graph in the invocation of this request
    checkpoint,       \* channel values the checkpointer holds for _thread_id
    suspended,        \* the locals of the other request in flight on this workflow
    pc,               \* position of the current request
    caller,           \* who called AgenticWorkflow.run: ChatbotApp.query or main
    run_query,        \* the query argument of run()
    rewritten_resp,   \* response of the rewriter call of this run
    rewritten,        \* wiki_agent local
    effective_query,  \* wiki_agent local
    docs,             \* wiki_agent local
    context,          \* wiki_agent local
    llm_calls,        \* model calls issued in this run, in order
    retrievals,       \* retrieval calls of this run, in order
    trace,            \* node functions executed in this run, in order
    run_status,       \* "idle", "running", "returned" or "raised" for run()
    outcome,          \* what the caller of the request ends with
    result,           \* the mapping handed to the user interface
    synth_resp,       \* response of the synthesis call of this run
    prev_returned_docs, \* TRUE iff the preceding request returned context documents
    documents,        \* create_vector_store: number of documents to ingest
    collection_name,  \* create_vector_store argument
    start_idx,        \* create_vector_store loop variable
    collection,       \* the entries persisted in the Chroma collection
    total_added,      \* create_vector_store counter
    batch_log,        \* outcome of each embed_documents call, in order
    ing_pc,           \* position of the ingestion
    turns,            \* the configured QUERY_REWRITER_TURNS of a history truncation
    history_text,     \* the chat_history string of a history truncation
    history_lines,    \* wiki_agent local: the lines given to the rewriter
    hist_pc,          \* position of the history truncation
    response,         \* the rewriter response of a sanitisation
    sanitized,        \* wiki_agent local `rewritten` after the sanitisation
    san_pc,           \* position of the sanitisation
    enable_chunking,  \* config.ENABLE_CHUNKING
    file,             \* process_markdown_file: the file at file_path
    file_docs,        \* process_markdown_file: the documents returned
    file_pc,          \* position of the processing of the file
    wiki_files,       \* process_wiki_directory: what WIKI_MD_DIR.rglob("*.md") lists
    file_idx,         \* process_wiki_directory: position of the loop in the listing
    all_docs,         \* process_wiki_directory local
    processed_files,  \* process_wiki_directory local
    dir_pc            \* position of the directory ingestion

agentVars == <<cfg, agents, vector_stores, bm25_retriever>>
runVars == <<state, pc, caller, run_query, rewritten_resp, rewritten,
             effective_query, docs, context, llm_calls, retrievals, trace,
             run_status, outcome, result, synth_resp, prev_returned_docs>>
sharedVars == <<checkpoint, suspended>>
ingestVars == <<documents, collection_name, start_idx, collection, total_added,
                batch_log, ing_pc>>
pureVars == <<turns, history_text, history_lines, hist_pc, response, sanitized, san_pc>>
\* the variables outside the answering pipeline and the batch ingestion
fileVars == <<enable_chunking, file, file_docs, file_pc, wiki_files, file_idx,
              all_docs, processed_files, dir_pc>>
otherVars == <<pureVars, fileVars>>
vars == <<agentVars, runVars, sharedVars, ingestVars, otherVars>>

\* AgentNodes.__init__: the wiki agent exists iff endpoint and model are set
InitAgents(c) == IF c.endpoint /\ c.model THEN {"wiki"} ELSE {}

\* [ln for ln in chat_history.split("\n") if ln.strip()][-n * 2:]
HistoryLinesFor(chat_history, n) ==
    LastN(NonBlankLines(SplitLines(chat_history, <<>>)), n * 2)

\* history_lines of the rewriter prompt
HistoryLines(chat_history) == HistoryLinesFor(chat_history, QUERY_REWRITER_TURNS)

StartsWith(s, c) == s # <<>> /\ s[1] = c
EndsWith(s, c) == s # <<>> /\ s[Len(s)] = c

\* (content or "").strip() followed by the two quote removals
SanitizeRewrite(content) ==
    LET r0 == Strip(content)
        r1 == IF StartsWith(r0, "\"") /\ EndsWith(r0, "\"") THEN Slice1m1(r0) ELSE r0
        r2 == IF StartsWith(r1, "'") /\ EndsWith(r1, "'") THEN Slice1m1(r1) ELSE r1
    IN  r2

\* variant: a non-string content is converted with str() instead of failing
RewriteOfStringified(resp) ==
    CASE resp.kind = "raise" -> None
      [] resp.kind = "nonstring" -> Some(SanitizeRewrite(<<"[", "]">>))
      [] resp.kind = "none" -> Some(SanitizeRewrite(<<>>))
      [] OTHER -> Some(SanitizeRewrite(resp.text))

\* value of `rewritten` after the try/except around the rewriter call
RewriteOf(resp) ==
    CASE resp.kind = "raise" -> None
      [] resp.kind = "nonstring" -> None
      [] resp.kind = "none" -> Some(SanitizeRewrite(<<>>))
      [] OTHER -> Some(SanitizeRewrite(resp.text))

\* rewritten or query
EffectiveQuery(rw, query) == IF Truthy(rw) THEN rw.val ELSE query

\* variant: a failed fusion leaves the result empty
PrimaryRetrievalNoDegrade(sem, lex, fusion_fails) ==
    IF bm25_retriever
    THEN IF fusion_fails THEN <<>>
         ELSE Truncate(EnsembleInvoke(sem, lex), RETRIEVAL_K)
    ELSE Truncate(sem, RETRIEVAL_K)

\* variant: the fused list is passed on without the [:RETRIEVAL_K] cut
PrimaryRetrievalUntruncated(sem, lex, fusion_fails) ==
    IF bm25_retriever
    THEN IF fusion_fails THEN Truncate(sem, RETRIEVAL_K)
         ELSE EnsembleInvoke(sem, lex)
    ELSE Truncate(sem, RETRIEVAL_K)

\* docs of the primary retrieval for the given raw results of the two indices
PrimaryRetrieval(sem, lex, fusion_fails) ==
    IF bm25_retriever
    THEN IF fusion_fails THEN Truncate(sem, RETRIEVAL_K)
         ELSE Truncate(EnsembleInvoke(sem, lex), RETRIEVAL_K)
    ELSE Truncate(sem, RETRIEVAL_K)

\* `if not docs and rewritten`
NeedsFallback(d, rw) == d = <<>> /\ Truthy(rw)

\* variant: the fallback retrieval never uses the lexical index
FallbackSemanticOnly(sem, lex, fusion_fails) == Truncate(sem, RETRIEVAL_K)

\* docs of the fallback retrieval with the original query
FallbackRetrieval(sem, lex, fusion_fails) ==
    IF bm25_retriever
    THEN IF fusion_fails THEN Truncate(sem, RETRIEVAL_K)
         ELSE Truncate(EnsembleInvoke(sem, lex), RETRIEVAL_K)
    ELSE Truncate(sem, RETRIEVAL_K)

RetrievalMode == IF bm25_retriever THEN "hybrid" ELSE "semantic"

\* variant: the emptiness check taken from the primary retrieval only
NoDocsPrimaryOnly(d) == d = <<>> /\ Len(retrievals) = 1

\* `if not docs` before the context is assembled
NoDocs(d) == d = <<>>

\* variant: the cap applied to each passage instead of the concatenation
AssembleContextPerPassage(d) ==
    Join([i \in 1..Len(d) |-> Truncate(page_content(d[i]), CONTEXT_MAX_CHARS)], SEPARATOR)

\* "\n\n---\n\n".join(page contents)[:CONTEXT_MAX_CHARS]
AssembleContext(d) ==
    Truncate(Join([i \in 1..Len(d) |-> page_content(d[i])], SEPARATOR), CONTEXT_MAX_CHARS)

\* variant: the user turn is the query of the retrieval that found the docs
FinalQueryOfRetrieval(rw, query) == retrievals[Len(retrievals)].query

\* final_query = rewritten or query
FinalQuery(rw, query) == IF Truthy(rw) THEN rw.val ELSE query

\* the four return values of wiki_agent
NotConfiguredOut == [wiki_answer |-> NOT_CONFIGURED_ANSWER, model |-> "Not configured"]
NoStoreOut == [wiki_answer |-> NO_STORE_ANSWER, model |-> "wiki-model"]
NoDocsOut(eq, rw) ==
    [wiki_answer |-> NO_DOCS_ANSWER, query |-> eq, used_query |-> eq, rewritten_query |-> rw]
AnswerOut(answer, d, ctx, fq, rw) ==
    [wiki_answer |-> answer,
     wiki_context_docs |-> [i \in 1..Len(d) |-> metadata(d[i])],
     wiki_context_text |-> ctx,
     query |-> fq, used_query |-> fq, rewritten_query |-> rw,
     endpoint |-> "wiki-endpoint"]

\* finish_wiki
FinishWikiOut(st) == [answer |-> st.wiki_answer, source |-> "wiki"]

(************************** AgenticWorkflow ********************************)
StateKeys == {"query", "answer", "source", "chat_history", "wiki_answer",
              "wiki_context_docs", "wiki_context_text", "diag_events"}

\* the timing wrapper: the node's output plus the extended event list
\* (the clock of the model does not advance: duration_ms is 0)
DiagEvent(name, out) ==
    LET base == [name |-> name, duration_ms |-> 0,
                 doc_count |-> IF "wiki_context_docs" \in DOMAIN out
                               THEN Len(out.wiki_context_docs) ELSE 0]
        txt == IF "wiki_context_text" \in DOMAIN out THEN out.wiki_context_text ELSE <<>>
    IN  IF txt # <<>> THEN ("context_preview" :> Truncate(txt, PREVIEW_CHARS)) @@ base
        ELSE base

\* variant: the wrapper starts a new event list in every node
TimedFreshList(name, out, st) ==
    ("diag_events" :> <<DiagEvent(name, out)>>) @@ out

Timed(name, out, st) ==
    ("diag_events" :> Append(st.diag_events, DiagEvent(name, out))) @@ out

\* the graph writes the keys of the node's output that are channels of AgentState
ApplyWrites(st, out) ==
    [k \in StateKeys |-> IF k \in DOMAIN out THEN out[k] ELSE st[k]]

\* the successor of a node along the edges of the graph
NextNode(node) == IF node = "wiki_agent" THEN "finish_wiki" ELSE "end"

\* variant: initial_state without the two context keys
InitialStateKeepsContext(st, query, chat_history) ==
    [st EXCEPT !.query = query, !.answer = "", !.source = "",
               !.chat_history = chat_history, !.diag_events = <<>>]

\* run(): initial_state written over the checkpointed channel values
InitialState(st, query, chat_history) ==
    [st EXCEPT !.query = query, !.answer = "", !.source = "",
               !.wiki_context_docs = <<>>, !.wiki_context_text = <<>>,
               !.chat_history = chat_history, !.diag_events = <<>>]

\* the mapping returned by run()
RunResult(st, query) ==
    [answer |-> st.answer, source |-> st.source,
     context_docs |-> st.wiki_context_docs, query |-> query,
     diag_events |-> st.diag_events, endpoint |-> None]

\* ChatbotApp.query: the except branch
ErrorResult == [answer |-> "Error: synthesis call failed", source |-> "error"]

NoResult == [answer |-> "", source |-> ""]

\* channel values before the first request of the thread
EmptyState ==
    [query |-> <<>>, answer |-> "", source |-> "", chat_history |-> <<>>,
     wiki_answer |-> "", wiki_context_docs |-> <<>>, wiki_context_text |-> <<>>,
     diag_events |-> <<>>]

(***************************** requests ************************************)
\* no rewriter call / no synthesis call was made in this run
NoResponse == [kind |-> "nocall", text |-> <<>>]
NoSynth == [kind |-> "nocall", answer |-> ""]

\* the locals of a request that has not started
IdleLocals ==
    [state |-> EmptyState, pc |-> "idle", caller |-> "main", run_query |-> <<>>,
     rewritten_resp |-> NoResponse, rewritten |-> None, effective_query |-> <<>>,
     docs |-> <<>>, context |-> <<>>, llm_calls |-> <<>>, retrievals |-> <<>>,
     trace |-> <<>>, run_status |-> "idle", outcome |-> "pending",
     result |-> NoResult, synth_resp |-> NoSynth, prev_returned_docs |-> FALSE]

\* the locals of the request of this thread of control
RunLocals ==
    [state |-> state, pc |-> pc, caller |-> caller, run_query |-> run_query,
     rewritten_resp |-> rewritten_resp, rewritten |-> rewritten,
     effective_query |-> effective_query, docs |-> docs, context |-> context,
     llm_calls |-> llm_calls, retrievals |-> retrievals, trace |-> trace,
     run_status |-> run_status, outcome |-> outcome, result |-> result,
     synth_resp |-> synth_resp, prev_returned_docs |-> prev_returned_docs]

LlmCall(kind, history, query, ctx, human) ==
    [kind |-> kind, history |-> history, query |-> query, context |-> ctx, human |-> human]

RetrievalCall(stage, query, sem, lex, fusion_failed, res) ==
    [stage |-> stage, query |-> query, mode |-> RetrievalMode, sem |-> sem, lex |-> lex,
     fusion_failed |-> fusion_failed, result |-> res]

\* the lexical results that enter the fusion: none without a lexical index,
\* and none are recorded for a call whose fusion raised
LexicalInput(lex, fusion_fails) ==
    /\ ~bm25_retriever => (lex = <<>> /\ ~fusion_fails)
    /\ fusion_fails => lex = <<>>

\* variant: the graph applies the writes of a node to the channel values
\* it reads back from the checkpointer
NodeReturnsOnSaved(node, out) ==
    /\ state' = ApplyWrites(checkpoint, Timed(node, out, checkpoint))
    /\ checkpoint' = state'
    /\ pc' = NextNode(node)

\* a node function returned `out`: the timing wrapper adds the event, the
\* graph writes the channels, saves them with the checkpointer and moves
\* along the edge
NodeReturns(node, out) ==
    /\ state' = ApplyWrites(state, Timed(node, out, state))
    /\ checkpoint' = state'
    /\ pc' = NextNode(node)

\* ChatbotApp.query(user_query, chat_history) or the chat input of main():
\* both call AgenticWorkflow.run, which invokes the graph on initial_state;
\* the invocation starts from the channel values saved for _thread_id
Run(c, query, chat_history) ==
    /\ pc \in {"idle", "done"}
    /\ caller' = c
    /\ run_query' = query
    /\ state' = InitialState(checkpoint, query, chat_history)
    /\ checkpoint' = state'
    /\ prev_returned_docs' = (run_status = "returned" /\ result.context_docs # <<>>)
    /\ synth_resp' = NoSynth
    /\ pc' = "wiki_agent"
    /\ run_status' = "running"
    /\ outcome' = "pending"
    /\ result' = NoResult
    /\ rewritten_resp' = NoResponse
    /\ rewritten' = None
    /\ effective_query' = <<>>
    /\ docs' = <<>>
    /\ context' = <<>>
    /\ llm_calls' = <<>>
    /\ retrievals' = <<>>
    /\ trace' = <<>>
    /\ UNCHANGED <<agentVars, ingestVars, otherVars, suspended>>

\* wiki_agent: no agent configured
WikiAgentNotConfigured ==
    /\ pc = "wiki_agent"
    /\ "wiki" \notin agents
    /\ trace' = Append(trace, "wiki_agent")
    /\ NodeReturns("wiki_agent", NotConfiguredOut)
    /\ UNCHANGED <<agentVars, ingestVars, otherVars, suspended, synth_resp,
                   prev_returned_docs, caller, run_query, rewritten_resp,
                   rewritten, effective_query, docs, context, llm_calls, retrievals,
                   run_status, outcome, result>>

\* wiki_agent: no vector store
WikiAgentNoStore ==
    /\ pc = "wiki_agent"
    /\ "wiki" \in agents
    /\ "wiki" \notin vector_stores
    /\ trace' = Append(trace, "wiki_agent")
    /\ NodeReturns("wiki_agent", NoStoreOut)
    /\ UNCHANGED <<agentVars, ingestVars, otherVars, suspended, synth_resp,
                   prev_returned_docs, caller, run_query, rewritten_resp,
                   rewritten, effective_query, docs, context, llm_calls, retrievals,
                   run_status, outcome, result>>

\* wiki_agent: chat_history is falsy, no rewriter call
RewriteSkipped ==
    /\ pc = "wiki_agent"
    /\ "wiki" \in agents
    /\ "wiki" \in vector_stores
    /\ state.chat_history = <<>>
    /\ trace' = Append(trace, "wiki_agent")
    /\ rewritten' = None
    /\ effective_query' = EffectiveQuery(None, state.query)
    /\ pc' = "retrieve"
    /\ UNCHANGED <<agentVars, ingestVars, otherVars, suspended, checkpoint,
                   synth_resp, prev_returned_docs, state, caller, run_query, rewritten_resp,
                   docs, context, llm_calls, retrievals, run_status, outcome, result>>

\* wiki_agent: the rewriter call and its sanitisation
Rewrite(resp) ==
    /\ pc = "wiki_agent"
    /\ "wiki" \in agents
    /\ "wiki" \in vector_stores
    /\ state.chat_history # <<>>
    /\ trace' = Append(trace, "wiki_agent")
    /\ llm_calls' = Append(llm_calls,
                           LlmCall("rewrite", HistoryLines(state.chat_history),
                                   state.query, <<>>, REWRITER_HUMAN))
    /\ rewritten_resp' = resp
    /\ rewritten' = RewriteOf(resp)
    /\ effective_query' = EffectiveQuery(RewriteOf(resp), state.query)
    /\ pc' = "retrieve"
    /\ UNCHANGED <<agentVars, ingestVars, otherVars, suspended, checkpoint,
                   synth_resp, prev_returned_docs, state, caller, run_query,
                   docs, context, retrievals, run_status, outcome, result>>

\* wiki_agent: the primary retrieval with effective_query
Retrieve(sem, lex, fusion_fails) ==
    /\ pc = "retrieve"
    /\ LexicalInput(lex, fusion_fails)
    /\ LET d == PrimaryRetrieval(sem, lex, fusion_fails)
       IN  /\ docs' = d
           /\ retrievals' = Append(retrievals,
                  RetrievalCall("primary", effective_query, sem, lex, fusion_fails, d))
           /\ pc' = IF NeedsFallback(d, rewritten) THEN "fallback" ELSE "assemble"
    /\ UNCHANGED <<agentVars, ingestVars, otherVars, suspended, checkpoint,
                   synth_resp, prev_returned_docs, state, caller, run_query, rewritten_resp,
                   rewritten, effective_query, context, llm_calls, trace,
                   run_status, outcome, result>>

\* wiki_agent: the retry with the original query; the indices are read-only,
\* so the same query text finds what the primary retrieval found
Fallback(sem, lex, fusion_fails) ==
    /\ pc = "fallback"
    /\ LexicalInput(lex, fusion_fails)
    /\ state.query = effective_query =>
           /\ sem = retrievals[1].sem
           /\ (~fusion_fails /\ ~retrievals[1].fusion_failed) => lex = retrievals[1].lex
    /\ LET d == FallbackRetrieval(sem, lex, fusion_fails)
       IN  /\ docs' = d
           /\ retrievals' = Append(retrievals,
                  RetrievalCall("fallback", state.query, sem, lex, fusion_fails, d))
    /\ pc' = "assemble"
    /\ UNCHANGED <<agentVars, ingestVars, otherVars, suspended, checkpoint,
                   synth_resp, prev_returned_docs, state, caller, run_query, rewritten_resp,
                   rewritten, effective_query, context, llm_calls, trace,
                   run_status, outcome, result>>

\* wiki_agent: no documents, the fixed answer
NoDocuments ==
    /\ pc = "assemble"
    /\ NoDocs(docs)
    /\ NodeReturns("wiki_agent", NoDocsOut(effective_query, rewritten))
    /\ UNCHANGED <<agentVars, ingestVars, otherVars, suspended, synth_resp,
                   prev_returned_docs, caller, run_query, rewritten_resp,
                   rewritten, effective_query, docs, context, llm_calls, retrievals,
                   trace, run_status, outcome, result>>

\* wiki_agent: context assembly and the synthesis call
Synthesize(resp) ==
    /\ pc = "assemble"
    /\ ~NoDocs(docs)
    /\ LET ctx == AssembleContext(docs)
           fq == FinalQuery(rewritten, state.query)
       IN  /\ context' = ctx
           /\ llm_calls' = Append(llm_calls, LlmCall("synth", <<>>, <<>>, ctx, fq))
           /\ synth_resp' = resp
           /\ IF resp.kind = "raise"
              THEN /\ pc' = "raised"
                   /\ run_status' = "raised"
                   /\ state' = state
                   /\ checkpoint' = checkpoint
              ELSE /\ NodeReturns("wiki_agent", AnswerOut(resp.answer, docs, ctx, fq, rewritten))
                   /\ run_status' = run_status
    /\ UNCHANGED <<agentVars, ingestVars, otherVars, suspended, prev_returned_docs, caller, run_query, rewritten_resp,
                   rewritten, effective_query, docs, retrievals, trace, outcome, result>>

\* the finish_wiki node
FinishWiki ==
    /\ pc = "finish_wiki"
    /\ trace' = Append(trace, "finish_wiki")
    /\ NodeReturns("finish_wiki", FinishWikiOut(state))
    /\ UNCHANGED <<agentVars, ingestVars, otherVars, suspended, synth_resp,
                   prev_returned_docs, caller, run_query, rewritten_resp,
                   rewritten, effective_query, docs, context, llm_calls, retrievals,
                   run_status, outcome, result>>

\* the graph reached END: run() builds its result, which both callers pass on
RunReturns ==
    /\ pc = "end"
    /\ result' = RunResult(state, run_query)
    /\ run_status' = "returned"
    /\ outcome' = "result"
    /\ pc' = "done"
    /\ UNCHANGED <<agentVars, ingestVars, otherVars, suspended, checkpoint,
                   synth_resp, prev_returned_docs, state, caller, run_query, rewritten_resp,
                   rewritten, effective_query, docs, context, llm_calls, retrievals, trace>>

\* run() raised inside ChatbotApp.query: the except branch answers
QueryCatches ==
    /\ pc = "raised"
    /\ caller = "query"
    /\ result' = ErrorResult
    /\ outcome' = "result"
    /\ pc' = "done"
    /\ UNCHANGED <<agentVars, ingestVars, otherVars, suspended, checkpoint,
                   synth_resp, prev_returned_docs, state, caller, run_query, rewritten_resp,
                   rewritten, effective_query, docs, context, llm_calls, retrievals, trace,
                   run_status>>

\* run() raised in main(): nothing catches, no response mapping exists
MainPropagates ==
    /\ pc = "raised"
    /\ caller = "main"
    /\ outcome' = "exception"
    /\ pc' = "done"
    /\ UNCHANGED <<agentVars, ingestVars, otherVars, suspended, checkpoint,
                   synth_resp, prev_returned_docs, state, caller, run_query, rewritten_resp,
                   rewritten, effective_query, docs, context, llm_calls, retrievals, trace,
                   run_status, result>>

\* Two requests run on one workflow at the same time, each in its own
\* thread of control with its own locals and its own graph invocation; the
\* compiled graph, its checkpointer and _thread_id are shared.  The
\* variables of the request hold the locals of the thread that is
\* running, `suspended` those of the other one.
Switch ==
    /\ suspended' = RunLocals
    /\ state' = suspended.state
    /\ pc' = suspended.pc
    /\ caller' = suspended.caller
    /\ run_query' = suspended.run_query
    /\ rewritten_resp' = suspended.rewritten_resp
    /\ rewritten' = suspended.rewritten
    /\ effective_query' = suspended.effective_query
    /\ docs' = suspended.docs
    /\ context' = suspended.context
    /\ llm_calls' = suspended.llm_calls
    /\ retrievals' = suspended.retrievals
    /\ trace' = suspended.trace
    /\ run_status' = suspended.run_status
    /\ outcome' = suspended.outcome
    /\ result' = suspended.result
    /\ synth_resp' = suspended.synth_resp
    /\ prev_returned_docs' = suspended.prev_returned_docs
    /\ UNCHANGED <<agentVars, ingestVars, otherVars, checkpoint>>

\* a request arrives in a thread that has not run one yet
StartRun(c, query, chat_history) ==
    /\ pc = "idle"
    /\ Run(c, query, chat_history)

(***************************** ingestion ***********************************)
\* bounds of the ingested corpus: full batches and the size of the last one
MaxFullBatches == 2
MaxTail == 2

DocCounts == {b * batch_size + r : b \in 0..MaxFullBatches, r \in 0..MaxTail}
CollectionNames == {"wiki", "kb"}

\* document i (0-based, as in the code) of a corpus of n documents
MakeDocuments(n) ==
    [j \in 1..n |-> [page_content |-> <<"text", j - 1>>, metadata |-> <<"meta", j - 1>>]]

\* texts[a:b] for 0 <= a <= b <= len
Slice(s, a, b) == SubSeq(s, a + 1, b)

\* the vector the endpoint returns for a text
EmbeddingOf(text) == <<"vec", text>>

\* variant: on a failed request the vectors collected so far are returned
get_embeddings_partial(texts, fail_at) ==
    IF fail_at = 0 THEN Some([i \in 1..Len(texts) |-> EmbeddingOf(texts[i])])
    ELSE Some([i \in 1..(fail_at - 1) |-> EmbeddingOf(texts[i])])

\* get_embeddings: one request per text; the request for text number
\* fail_at (1-based, 0 = none) is answered with an error or raises
get_embeddings(texts, fail_at) ==
    IF fail_at = 0 THEN Some([i \in 1..Len(texts) |-> EmbeddingOf(texts[i])])
    ELSE None

\* VLLMEmbeddingClient.embed_documents
embed_documents(texts, fail_at) ==
    LET embeddings == get_embeddings(texts, fail_at)
    IN  IF Truthy(embeddings) THEN embeddings.val ELSE <<>>

\* variant: ids numbered within the batch
AddIdsBatchLocal(name, start, usable) ==
    [j \in 1..usable |-> <<name, "-", j - 1>>]

\* add_ids of a batch
AddIds(name, start, usable) ==
    [j \in 1..usable |-> <<name, "-", start + j - 1>>]

\* the entries handed to collection.add for a batch
AddEntries(name, start, batch_texts, batch_metas, batch_embeddings) ==
    LET usable == Min(Len(batch_texts), Len(batch_embeddings))
        ids == AddIds(name, start, usable)
    IN  {[id |-> ids[j], document |-> batch_texts[j], metadata |-> batch_metas[j],
          embedding |-> batch_embeddings[j]] : j \in 1..usable}

\* collection.add: an id already present keeps its entry
CollectionAdd(coll, entries) ==
    coll \cup {e \in entries : \A c \in coll : c.id # e.id}

Texts == [j \in 1..Len(documents) |-> documents[j].page_content]
Metadatas == [j \in 1..Len(documents) |-> documents[j].metadata]

\* create_vector_store is called on the ingested documents
CreateVectorStore ==
    /\ ing_pc = "idle"
    /\ ing_pc' = "loop"
    /\ start_idx' = 0
    /\ total_added' = 0
    /\ UNCHANGED <<agentVars, runVars, sharedVars, otherVars, documents, collection_name, collection, batch_log>>

\* one iteration of the batch loop
EmbedBatch(fail_at) ==
    /\ ing_pc = "loop"
    /\ start_idx < Len(documents)
    /\ LET end_idx == Min(start_idx + batch_size, Len(documents))
           batch_texts == Slice(Texts, start_idx, end_idx)
           batch_metas == Slice(Metadatas, start_idx, end_idx)
       IN  /\ fail_at <= Len(batch_texts)
           /\ LET batch_embeddings == embed_documents(batch_texts, fail_at)
                  entries == AddEntries(collection_name, start_idx, batch_texts,
                                        batch_metas, batch_embeddings)
              IN  /\ collection' = CollectionAdd(collection, entries)
                  /\ total_added' = total_added + Cardinality(entries)
                  /\ batch_log' = Append(batch_log,
                         [start |-> start_idx, end |-> end_idx,
                          failed |-> fail_at # 0,
                          embeddings |-> Len(batch_embeddings)])
    /\ start_idx' = start_idx + batch_size
    /\ UNCHANGED <<agentVars, runVars, sharedVars, otherVars, documents, collection_name, ing_pc>>

\* the loop is over: the store is returned
StoreCreated ==
    /\ ing_pc = "loop"
    /\ start_idx >= Len(documents)
    /\ ing_pc' = "done"
    /\ UNCHANGED <<agentVars, runVars, sharedVars, otherVars, documents, collection_name, start_idx,
                   collection, total_added, batch_log>>

(******************* the rewriter's pure steps *****************************)
\* bounds: the turn window, the lines of a chat history, the characters of
\* a rewriter response
MaxTurns == 2
MaxHistoryLines == 5
MaxContentLen == 5

SeqsUpTo(S, n) == UNION {[1..k -> S] : k \in 0..n}

\* chat histories of up to MaxHistoryLines lines, blank lines included
HistoryLineChoices == {<<>>, <<" ">>, <<"u">>, <<"a">>}
HistoryTexts == {Join(ls, <<"\n">>) : ls \in SeqsUpTo(HistoryLineChoices, MaxHistoryLines)}

\* rewriter responses: every text of up to MaxContentLen characters
ContentChars == {"\"", "'", "r", " "}
SanitizeResponses ==
    {[kind |-> "raise", text |-> <<>>],
     [kind |-> "none", text |-> <<>>],
     [kind |-> "nonstring", text |-> <<>>]}
    \cup {[kind |-> "text", text |-> t] : t \in SeqsUpTo(ContentChars, MaxContentLen)}

\* wiki_agent, lines 76-78: the history lines of the rewriter prompt
BuildHistoryLines ==
    /\ hist_pc = "input"
    /\ history_lines' = HistoryLinesFor(history_text, turns)
    /\ hist_pc' = "done"
    /\ UNCHANGED <<agentVars, runVars, sharedVars, ingestVars, fileVars, turns,
                   history_text, response, sanitized, san_pc>>

\* wiki_agent, lines 103-111: the rewriter response becomes `rewritten`
SanitizeResponse ==
    /\ san_pc = "input"
    /\ sanitized' = RewriteOf(response)
    /\ san_pc' = "done"
    /\ UNCHANGED <<agentVars, runVars, sharedVars, ingestVars, fileVars, turns,
                   history_text, history_lines, hist_pc, response>>

(********************** WikiProcessor: markdown files **********************)
\* A file is a sequence of lines.  The lines are: the front-matter fence,
\* YAML lines (a scalar value, a list value, a null value, a date no
\* calendar has, an unclosed flow mapping), and a line of prose.
\* bounds: the lines of a file, the files of a directory, and the chunk
\* size and overlap of the splitter counted in lines (config defaults 2000
\* and 200 characters)
MaxFileLines == 4
MaxFiles == 3
CHUNK_SIZE == 2
CHUNK_OVERLAP == 1

FENCE == "---"
YamlKeyLines == {"source: fm", "tags: [a, b]", "draft:"}
BAD_YAML == "{bad"
BAD_DATE == "date: 2024-99-99"
PROSE == "Body"
LineChoices == {FENCE, BAD_YAML, BAD_DATE, PROSE} \cup YamlKeyLines
FileContents == SeqsUpTo(LineChoices, MaxFileLines)

KeyOf(line) ==
    CASE line = "source: fm" -> "source"
      [] line = "tags: [a, b]" -> "tags"
      [] OTHER -> "draft"

ValueOf(line) ==
    CASE line = "source: fm" -> [kind |-> "scalar", items |-> <<"fm">>]
      [] line = "tags: [a, b]" -> [kind |-> "list", items |-> <<"a", "b">>]
      [] OTHER -> [kind |-> "null", items |-> <<>>]

NoMapping == [k \in {} |-> ValueOf("draft:")]

\* yaml.safe_load(block): a mapping, another value (None for an empty
\* block, a string for prose), a yaml.YAMLError, or - for a date that
\* datetime rejects - a ValueError
yaml_safe_load(block) ==
    LET has(l) == \E i \in 1..Len(block) : block[i] = l
        lastOf(k) == CHOOSE i \in 1..Len(block) :
                         /\ KeyOf(block[i]) = k
                         /\ \A j \in (i + 1)..Len(block) : KeyOf(block[j]) # k
    IN  IF has(BAD_YAML) THEN [kind |-> "YAMLError", fm |-> NoMapping]
        ELSE IF block = <<>> THEN [kind |-> "other", fm |-> NoMapping]
        ELSE IF \A i \in 1..Len(block) : block[i] = PROSE
             THEN [kind |-> "other", fm |-> NoMapping]
        ELSE IF has(PROSE) THEN [kind |-> "YAMLError", fm |-> NoMapping]
        ELSE IF has(BAD_DATE) THEN [kind |-> "ValueError", fm |-> NoMapping]
        ELSE [kind |-> "mapping",
              fm |-> [k \in {KeyOf(block[i]) : i \in 1..Len(block)} |->
                         ValueOf(block[lastOf(k)])]]

\* content.split("---", 2)
SplitFence(content) ==
    LET fences == {i \in 1..Len(content) : content[i] = FENCE}
        first == CHOOSE i \in fences : \A j \in fences : i <= j
        later == {i \in fences : i > first}
        second == CHOOSE i \in later : \A j \in later : i <= j
    IN  IF fences = {} THEN <<content>>
        ELSE IF later = {} THEN <<SubSeq(content, 1, first - 1),
                                  SubSeq(content, first + 1, Len(content))>>
        ELSE <<SubSeq(content, 1, first - 1),
               SubSeq(content, first + 1, second - 1),
               SubSeq(content, second + 1, Len(content))>>

\* the conversion of the front-matter values: a list is comma-joined, a
\* None value is left out, anything else is str(value)
FrontMatterMetadata(fm) ==
    [k \in {key \in DOMAIN fm : fm[key].kind # "null"} |->
        IF fm[k].kind = "list"
        THEN Join([i \in 1..Len(fm[k].items) |-> <<fm[k].items[i]>>], <<",">>)
        ELSE fm[k].items]

\* _extract_yaml_frontmatter: `raised` when an exception leaves the function
extract_yaml_frontmatter(content) ==
    LET whole == [raised |-> FALSE, metadata |-> NoMapping, remaining_content |-> content]
    IN  IF content # <<>> /\ content[1] = FENCE
        THEN LET parts == SplitFence(content)
             IN  IF Len(parts) >= 3
                 THEN LET loaded == yaml_safe_load(parts[2])
                      IN  CASE loaded.kind = "mapping" ->
                                   [raised |-> FALSE,
                                    metadata |-> FrontMatterMetadata(loaded.fm),
                                    remaining_content |-> parts[3]]
                            [] loaded.kind = "ValueError" ->
                                   [raised |-> TRUE, metadata |-> NoMapping,
                                    remaining_content |-> content]
                            [] OTHER -> whole
                 ELSE whole
        ELSE whole

\* markdown.markdown + get_text + the whitespace clean-up: a fence line is
\* a rule or a heading underline and leaves no text
RenderText(content) ==
    SelectSeq(content, LAMBDA line : line # FENCE)

\* RecursiveCharacterTextSplitter.split_text: windows of CHUNK_SIZE lines
\* that share CHUNK_OVERLAP lines; an empty text has no chunk
RECURSIVE SplitText(_)
SplitText(text) ==
    IF text = <<>> THEN <<>>
    ELSE IF Len(text) <= CHUNK_SIZE THEN <<text>>
    ELSE <<SubSeq(text, 1, CHUNK_SIZE)>>
         \o SplitText(SubSeq(text, CHUNK_SIZE - CHUNK_OVERLAP + 1, Len(text)))

\* split_documents([doc]): every chunk carries the metadata of the document
SplitDocuments(doc) ==
    LET texts == SplitText(doc.page_content)
    IN  [i \in 1..Len(texts) |-> [page_content |-> texts[i], metadata |-> doc.metadata]]

BaseMetadata(f) ==
    [source |-> <<f.path>>, type |-> <<"wiki">>, filename |-> <<f.name>>]

\* variant: the exceptions of the body leave process_markdown_file
process_markdown_file_uncaught(f, chunking) ==
    IF ~f.readable \/ extract_yaml_frontmatter(f.content).raised
    THEN [raised |-> TRUE, docs |-> <<>>]
    ELSE LET extracted == extract_yaml_frontmatter(f.content)
             md == extracted.metadata @@ BaseMetadata(f)
             doc == [page_content |-> RenderText(f.content), metadata |-> md]
         IN  [raised |-> FALSE,
              docs |-> IF chunking THEN SplitDocuments(doc) ELSE <<doc>>]

\* process_markdown_file: open/read fails for an unreadable file; the
\* front-matter keys are written over the base metadata; the text is
\* rendered from the whole content; `except Exception` returns []
process_markdown_file(f, chunking) ==
    IF ~f.readable \/ extract_yaml_frontmatter(f.content).raised
    THEN [raised |-> FALSE, docs |-> <<>>]
    ELSE LET extracted == extract_yaml_frontmatter(f.content)
             md == extracted.metadata @@ BaseMetadata(f)
             doc == [page_content |-> RenderText(f.content), metadata |-> md]
         IN  [raised |-> FALSE,
              docs |-> IF chunking THEN SplitDocuments(doc) ELSE <<doc>>]

File(path, name, is_file, readable, content) ==
    [path |-> path, name |-> name, is_file |-> is_file, readable |-> readable,
     content |-> content]

NoFile == File("", "", FALSE, FALSE, <<>>)

\* the files process_markdown_file is applied to
Files == {File("wiki/a.md", "a.md", TRUE, r, c) : r \in BOOLEAN, c \in FileContents}

\* the entries of a directory: prose of three lines, a front-matter block,
\* an unreadable file, a front-matter date that raises, a directory named
\* like a markdown file, an empty file
DirEntries ==
    {File("wiki/a.md", "a.md", TRUE, TRUE, <<PROSE, PROSE, PROSE>>),
     File("wiki/b.md", "b.md", TRUE, TRUE, <<FENCE, "tags: [a, b]", FENCE, PROSE>>),
     File("wiki/c.md", "c.md", TRUE, FALSE, <<PROSE>>),
     File("wiki/d.md", "d.md", TRUE, TRUE, <<FENCE, BAD_DATE, FENCE, PROSE>>),
     File("wiki/e.md", "e.md", FALSE, FALSE, <<>>),
     File("wiki/sub/f.md", "f.md", TRUE, TRUE, <<>>)}

\* a listing names every path once
Listings == {l \in SeqsUpTo(DirEntries, MaxFiles) :
                \A i, j \in 1..Len(l) : i # j => l[i] # l[j]}

\* process_markdown_file(file_path)
ProcessMarkdownFile ==
    /\ file_pc = "input"
    /\ file_docs' = process_markdown_file(file, enable_chunking).docs
    /\ file_pc' = "done"
    /\ UNCHANGED <<agentVars, runVars, sharedVars, ingestVars, pureVars,
                   enable_chunking, file, wiki_files, file_idx, all_docs,
                   processed_files, dir_pc>>

\* process_wiki_directory: the loop starts
ProcessWikiDirectory ==
    /\ dir_pc = "idle"
    /\ all_docs' = <<>>
    /\ processed_files' = 0
    /\ file_idx' = 1
    /\ dir_pc' = "loop"
    /\ UNCHANGED <<agentVars, runVars, sharedVars, ingestVars, pureVars,
                   enable_chunking, file, file_docs, file_pc, wiki_files>>

\* one iteration of the loop over the listing; an exception that left
\* process_markdown_file would leave process_wiki_directory as well
ProcessNextFile ==
    /\ dir_pc = "loop"
    /\ file_idx <= Len(wiki_files)
    /\ LET file_path == wiki_files[file_idx]
           processed == process_markdown_file(file_path, enable_chunking)
       IN  IF ~file_path.is_file
           THEN /\ file_idx' = file_idx + 1
                /\ UNCHANGED <<all_docs, processed_files, dir_pc>>
           ELSE IF processed.raised
           THEN /\ dir_pc' = "aborted"
                /\ UNCHANGED <<all_docs, processed_files, file_idx>>
           ELSE /\ all_docs' = all_docs \o processed.docs
                /\ processed_files' = processed_files + 1
                /\ file_idx' = file_idx + 1
                /\ dir_pc' = dir_pc
    /\ UNCHANGED <<agentVars, runVars, sharedVars, ingestVars, pureVars,
                   enable_chunking, file, file_docs, file_pc, wiki_files>>

\* the listing is exhausted: all_docs is returned
DirectoryProcessed ==
    /\ dir_pc = "loop"
    /\ file_idx > Len(wiki_files)
    /\ dir_pc' = "done"
    /\ UNCHANGED <<agentVars, runVars, sharedVars, ingestVars, pureVars,
                   enable_chunking, file, file_docs, file_pc, wiki_files, file_idx,
                   all_docs, processed_files>>

(************************** specifications *********************************)
RunIdle ==
    /\ state = IdleLocals.state
    /\ pc = IdleLocals.pc
    /\ caller = IdleLocals.caller
    /\ run_query = IdleLocals.run_query
    /\ rewritten_resp = IdleLocals.rewritten_resp
    /\ rewritten = IdleLocals.rewritten
    /\ effective_query = IdleLocals.effective_query
    /\ docs = IdleLocals.docs
    /\ context = IdleLocals.context
    /\ llm_calls = IdleLocals.llm_calls
    /\ retrievals = IdleLocals.retrievals
    /\ trace = IdleLocals.trace
    /\ run_status = IdleLocals.run_status
    /\ outcome = IdleLocals.outcome
    /\ result = IdleLocals.result
    /\ synth_resp = IdleLocals.synth_resp
    /\ prev_returned_docs = IdleLocals.prev_returned_docs
    /\ checkpoint = EmptyState
    /\ suspended = IdleLocals

HistoryIdle ==
    /\ turns = QUERY_REWRITER_TURNS
    /\ history_text = <<>>
    /\ history_lines = <<>>
    /\ hist_pc = "idle"

SanitizeIdle ==
    /\ response = NoResponse
    /\ sanitized = None
    /\ san_pc = "idle"

FilesIdle ==
    /\ enable_chunking = TRUE
    /\ file = NoFile
    /\ file_docs = <<>>
    /\ file_pc = "idle"
    /\ wiki_files = <<>>
    /\ file_idx = 1
    /\ all_docs = <<>>
    /\ processed_files = 0
    /\ dir_pc = "idle"

IngestIdle(docset) ==
    /\ documents \in docset
    /\ start_idx = 0
    /\ collection = {}
    /\ total_added = 0
    /\ batch_log = <<>>
    /\ ing_pc = "idle"

\* the answering pipeline on a workflow constructed from any configuration
Init ==
    /\ cfg \in [endpoint : BOOLEAN, model : BOOLEAN, api_key : BOOLEAN]
    /\ agents = InitAgents(cfg)
    /\ vector_stores \in {{}, {"wiki"}}
    /\ bm25_retriever \in BOOLEAN
    /\ RunIdle
    /\ collection_name = "wiki"
    /\ IngestIdle({<<>>})
    /\ HistoryIdle
    /\ SanitizeIdle
    /\ FilesIdle

Next ==
    \/ \E c \in Callers, q \in Queries, h \in Histories : Run(c, q, h)
    \/ WikiAgentNotConfigured
    \/ WikiAgentNoStore
    \/ RewriteSkipped
    \/ \E resp \in RewriterResponses : Rewrite(resp)
    \/ \E sem \in SemLists, lex \in LexLists, f \in BOOLEAN : Retrieve(sem, lex, f)
    \/ \E sem \in SemLists, lex \in LexLists, f \in BOOLEAN : Fallback(sem, lex, f)
    \/ NoDocuments
    \/ \E resp \in SynthResponses : Synthesize(resp)
    \/ FinishWiki
    \/ RunReturns
    \/ QueryCatches
    \/ MainPropagates

Spec == Init /\ [][Next]_vars

\* the ingestion of a corpus into a new collection
InitIngest ==
    /\ cfg = [endpoint |-> TRUE, model |-> TRUE, api_key |-> TRUE]
    /\ agents = InitAgents(cfg)
    /\ vector_stores = {}
    /\ bm25_retriever = FALSE
    /\ RunIdle
    /\ collection_name \in CollectionNames
    /\ IngestIdle({MakeDocuments(n) : n \in DocCounts})
    /\ HistoryIdle
    /\ SanitizeIdle
    /\ FilesIdle

NextIngest ==
    \/ CreateVectorStore
    \/ \E fail_at \in 0..batch_size : EmbedBatch(fail_at)
    \/ StoreCreated

SpecIngest == InitIngest /\ [][NextIngest]_vars

\* two concurrent requests on a configured workflow with read-only indices
\* (semantic index only; requests arriving through main())
ConcurrentHistories == {<<>>, <<"u", ":", "q", "\n", "a", ":", "x">>}
ConcurrentRewrites == {[kind |-> "text", text |-> <<"r">>]}
InitConcurrent ==
    /\ cfg = [endpoint |-> TRUE, model |-> TRUE, api_key |-> TRUE]
    /\ agents = InitAgents(cfg)
    /\ vector_stores = {"wiki"}
    /\ bm25_retriever = FALSE
    /\ RunIdle
    /\ collection_name = "wiki"
    /\ IngestIdle({<<>>})
    /\ HistoryIdle
    /\ SanitizeIdle
    /\ FilesIdle

NextConcurrent ==
    \/ \E q \in Queries, h \in ConcurrentHistories : StartRun("main", q, h)
    \/ Switch
    \/ RewriteSkipped
    \/ \E resp \in ConcurrentRewrites : Rewrite(resp)
    \/ \E sem \in SemLists : Retrieve(sem, <<>>, FALSE)
    \/ \E sem \in SemLists : Fallback(sem, <<>>, FALSE)
    \/ NoDocuments
    \/ \E resp \in SynthResponses : Synthesize(resp)
    \/ FinishWiki
    \/ RunReturns
    \/ MainPropagates

SpecConcurrent == InitConcurrent /\ [][NextConcurrent]_vars

\* no workflow is answering and no corpus is being ingested
PipelineIdle ==
    /\ cfg = [endpoint |-> TRUE, model |-> TRUE, api_key |-> TRUE]
    /\ agents = InitAgents(cfg)
    /\ vector_stores = {}
    /\ bm25_retriever = FALSE
    /\ RunIdle
    /\ collection_name = "wiki"
    /\ IngestIdle({<<>>})

\* the history truncation applied to any chat history under any turn window
InitHistory ==
    /\ PipelineIdle
    /\ SanitizeIdle
    /\ FilesIdle
    /\ turns \in 0..MaxTurns
    /\ history_text \in HistoryTexts
    /\ history_lines = <<>>
    /\ hist_pc = "input"

NextHistory == BuildHistoryLines

SpecHistory == InitHistory /\ [][NextHistory]_vars

\* the sanitisation applied to any rewriter response
InitSanitize ==
    /\ PipelineIdle
    /\ HistoryIdle
    /\ FilesIdle
    /\ response \in SanitizeResponses
    /\ sanitized = None
    /\ san_pc = "input"

NextSanitize == SanitizeResponse

SpecSanitize == InitSanitize /\ [][NextSanitize]_vars

\* process_markdown_file applied to any file, with and without chunking
InitFile ==
    /\ PipelineIdle
    /\ HistoryIdle
    /\ SanitizeIdle
    /\ enable_chunking \in BOOLEAN
    /\ file \in Files
    /\ file_docs = <<>>
    /\ file_pc = "input"
    /\ wiki_files = <<>>
    /\ file_idx = 1
    /\ all_docs = <<>>
    /\ processed_files = 0
    /\ dir_pc = "idle"

NextFile == ProcessMarkdownFile

SpecFile == InitFile /\ [][NextFile]_vars

\* process_wiki_directory on any listing, with and without chunking
InitDirectory ==
    /\ PipelineIdle
    /\ HistoryIdle
    /\ SanitizeIdle
    /\ enable_chunking \in BOOLEAN
    /\ file = NoFile
    /\ file_docs = <<>>
    /\ file_pc = "idle"
    /\ wiki_files \in Listings
    /\ file_idx = 1
    /\ all_docs = <<>>
    /\ processed_files = 0
    /\ dir_pc = "idle"

NextDirectory ==
    \/ ProcessWikiDirectory
    \/ ProcessNextFile
    \/ DirectoryProcessed

SpecDirectory == InitDirectory /\ [][NextDirectory]_vars

(******************************* claims ************************************)
Last(s) == s[Len(s)]
SynthCalled == \E i \in 1..Len(llm_calls) : llm_calls[i].kind = "synth"
RetrievalFinished == retrievals # <<>> /\ pc \notin {"retrieve", "fallback"}
EventNames(events) == [i \in 1..Len(events) |-> events[i].name]

\* C1: when the retrieval of a run (primary and, where it applies, the
\* fallback) yields no document, no synthesis call is issued in that run
\* and the run returns the fixed "no matching documents" answer.
C1_NoDocsShortCircuit ==
    (RetrievalFinished /\ Last(retrievals).result = <<>>) =>
        /\ ~SynthCalled
        /\ run_status # "raised"
        /\ outcome # "pending" =>
               (outcome = "result" /\ result.answer = NO_DOCS_ANSWER)

C1_Witness ==
    /\ outcome = "result"
    /\ Len(retrievals) = 2
    /\ retrievals[2].result = <<>>
    /\ result.answer = NO_DOCS_ANSWER

\* the first RETRIEVAL_K results of the retrieval recorded in call r, stated
\* from the raw results of the indices
ExpectedDocs(r) ==
    LET ranked == IF r.mode = "hybrid" /\ ~r.fusion_failed
                  THEN EnsembleInvoke(r.sem, r.lex) ELSE r.sem
    IN  [i \in 1..Min(RETRIEVAL_K, Len(ranked)) |-> ranked[i]]

\* C2: when a non-empty rewrite found nothing, the retrieval is repeated
\* with the original query in the same mode, and its results (the first
\* RETRIEVAL_K) are the documents of the context.
C2_FallbackUsesOriginalQuery ==
    (Len(retrievals) = 2 /\ pc # "fallback") =>
        /\ Truthy(rewritten)
        /\ retrievals[1].query = rewritten.val
        /\ retrievals[1].result = <<>>
        /\ retrievals[2].query = run_query
        /\ retrievals[2].mode = retrievals[1].mode
        /\ retrievals[2].mode = (IF bm25_retriever THEN "hybrid" ELSE "semantic")
        /\ docs = ExpectedDocs(retrievals[2])
        /\ (run_status = "returned" /\ docs # <<>>) =>
               result.context_docs = [i \in 1..Len(docs) |-> metadata(docs[i])]

C2_Witness ==
    /\ run_status = "returned"
    /\ Len(retrievals) = 2
    /\ retrievals[2].mode = "hybrid"
    /\ ~retrievals[2].fusion_failed
    /\ retrievals[2].lex # <<>>
    /\ Len(result.context_docs) = RETRIEVAL_K

\* C3: a run in which the rewriter produced a rewritten query reports it
\* as rewritten_query in its output.
C3_RewriteReported ==
    (run_status = "returned" /\ Truthy(rewritten)) =>
        /\ "rewritten_query" \in DOMAIN result
        /\ result.rewritten_query = rewritten.val

\* the rewrite step failed: the call raised, or the response has no usable text
RewriteFailed ==
    \/ rewritten_resp.kind \in {"raise", "none", "nonstring"}
    \/ rewritten_resp.kind = "text" /\ Strip(rewritten_resp.text) = <<>>

\* C4: a failed rewrite step counts as "no rewrite": the run goes on,
\* retrieval and synthesis use the original query, no rewritten query is
\* reported, and the run fails only if a later synthesis call raises.
C4_RewriteFailureRecovered ==
    RewriteFailed =>
        /\ ~Truthy(rewritten)
        /\ pc # "wiki_agent"
        /\ effective_query = run_query
        /\ \A i \in 1..Len(retrievals) : retrievals[i].query = run_query
        /\ \A i \in 1..Len(llm_calls) :
               llm_calls[i].kind = "synth" => llm_calls[i].human = run_query
        /\ run_status = "raised" => SynthCalled
        /\ "rewritten_query" \notin DOMAIN result

C4_Witness ==
    /\ rewritten_resp.kind = "raise"
    /\ run_status = "returned"
    /\ SynthCalled
    /\ result.source = "wiki"

BatchIndices(b) == b.start .. (b.end - 1)
BatchShort(b) == b.embeddings < b.end - b.start
PersistedTexts == {e.document : e \in collection}

C7_AbsoluteIdsAligned ==
    /\ \A e \in collection :
           \E i \in 0..(Len(documents) - 1) :
               /\ e.id = <<collection_name, "-", i>>
               /\ e.document = documents[i + 1].page_content
               /\ e.metadata = documents[i + 1].metadata
               /\ e.embedding = EmbeddingOf(documents[i + 1].page_content)
    /\ \A e1, e2 \in collection : e1.id = e2.id => e1 = e2
    /\ ing_pc = "done" =>
           {e.id[3] : e \in collection} =
               UNION {BatchIndices(batch_log[k]) :
                         k \in {n \in 1..Len(batch_log) : ~batch_log[n].failed}}

C7_Witness ==
    /\ ing_pc = "done"
    /\ Len(batch_log) = 3
    /\ ~batch_log[1].failed
    /\ batch_log[2].failed
    /\ ~batch_log[3].failed
    /\ {e.id[3] : e \in collection} =
           (0..(batch_size - 1)) \cup ((2 * batch_size)..(Len(documents) - 1))

\* the passages joined in ranking order, built from the last passage backwards
RECURSIVE NaiveConcat(_)
NaiveConcat(d) ==
    IF d = <<>> THEN <<>>
    ELSE IF Len(d) = 1 THEN page_content(d[1])
    ELSE NaiveConcat(SubSeq(d, 1, Len(d) - 1)) \o SEPARATOR \o page_content(d[Len(d)])

RECURSIVE TotalChars(_)
TotalChars(d) == IF d = <<>> THEN 0 ELSE Len(page_content(Head(d))) + TotalChars(Tail(d))

\* C8: the context given to the synthesis call is the prefix of length
\* min(budget, L) of the separator-joined passages; it never exceeds the
\* budget and has exactly budget characters when the passages exceed it.
C8_ContextIsCappedPrefix ==
    SynthCalled =>
        LET naive == NaiveConcat(docs)
            sent == Last(llm_calls).context
        IN  /\ sent = context
            /\ Len(context) = Min(CONTEXT_MAX_CHARS, Len(naive))
            /\ \A i \in 1..Len(context) : context[i] = naive[i]
            /\ Len(context) <= CONTEXT_MAX_CHARS
            /\ TotalChars(docs) > CONTEXT_MAX_CHARS => Len(context) = CONTEXT_MAX_CHARS
            /\ run_status = "returned" => state.wiki_context_text = context

C8_Witness ==
    /\ run_status = "returned"
    /\ SynthCalled
    /\ Len(docs) = 2
    /\ Len(NaiveConcat(docs)) > CONTEXT_MAX_CHARS
    /\ Len(context) = CONTEXT_MAX_CHARS

\* C9: a run that returns has executed wiki_agent, then finish_wiki, then
\* ended - each once, whatever happened inside the nodes - and returns one
\* diagnostic event per executed node, in that order.
C9_LinearStagesOneEventEach ==
    /\ run_status = "returned" =>
           /\ trace = <<"wiki_agent", "finish_wiki">>
           /\ EventNames(result.diag_events) = trace
    /\ pc = "finish_wiki" => trace = <<"wiki_agent">>
    /\ pc = "end" => trace = <<"wiki_agent", "finish_wiki">>

C9_Witness ==
    /\ run_status = "returned"
    /\ "wiki" \notin agents
    /\ result.answer = NOT_CONFIGURED_ANSWER
    /\ Len(result.diag_events) = 2

\* C10: a failed synthesis call reaches the caller as a result with
\* source = "error", and only a failed synthesis call does.
C10_SynthesisFailureTagged ==
    outcome # "pending" =>
        /\ run_status = "raised" => (outcome = "result" /\ result.source = "error")
        /\ (outcome = "result" /\ result.source = "error") =>
               (SynthCalled /\ run_status = "raised")
        /\ (outcome = "result" /\ run_status = "returned") => result.source = "wiki"

\* C11: with endpoint, model or API key missing for the agent, every run
\* returns the fixed configuration-missing message and issues no rewrite
\* call, no retrieval and no synthesis call.
C11_ConfigMissingShortCircuits ==
    (~cfg.endpoint \/ ~cfg.model \/ ~cfg.api_key) =>
        /\ llm_calls = <<>>
        /\ retrievals = <<>>
        /\ outcome # "pending" =>
               (outcome = "result" /\ result.answer = NOT_CONFIGURED_ANSWER)

\* C12: on every retrieval path (hybrid, semantic-only, degraded after a
\* fusion failure, fallback with the original query) the documents handed
\* to the context assembly, and returned by the run, are at most
\* RETRIEVAL_K.
C12_AtMostKDocuments ==
    /\ Len(docs) <= RETRIEVAL_K
    /\ \A i \in 1..Len(retrievals) : Len(retrievals[i].result) <= RETRIEVAL_K
    /\ run_status = "returned" => Len(result.context_docs) <= RETRIEVAL_K

C12_Witness ==
    /\ run_status = "returned"
    /\ Len(retrievals) = 1
    /\ retrievals[1].mode = "hybrid"
    /\ ~retrievals[1].fusion_failed
    /\ Len(EnsembleInvoke(retrievals[1].sem, retrievals[1].lex)) > RETRIEVAL_K
    /\ Len(result.context_docs) = RETRIEVAL_K

\* C13: the rewriter call is issued only in a run whose chat history has
\* at least one non-blank line; a returned run without such a line that
\* retrieved documents has issued exactly one model call, the synthesis.
C13_RewriterOnlyWithHistory ==
    LET nonblank == NonBlankLines(SplitLines(state.chat_history, <<>>))
    IN  /\ (\E i \in 1..Len(llm_calls) : llm_calls[i].kind = "rewrite") =>
               nonblank # <<>>
        /\ (nonblank = <<>> /\ run_status = "returned" /\ docs # <<>>) =>
               (Len(llm_calls) = 1 /\ llm_calls[1].kind = "synth")

\* C14: for every turn window N >= 0 and every chat history, the lines
\* given to the rewriter are exactly the last min(2*N, m) of the m
\* non-blank lines of the history, in their order, and never more than 2*N.
C14_HistoryWindow ==
    hist_pc = "done" =>
        LET nonblank == NonBlankLines(SplitLines(history_text, <<>>))
            m == Len(nonblank)
            k == Min(2 * turns, m)
        IN  /\ history_lines = SubSeq(nonblank, m - k + 1, m)
            /\ Len(history_lines) <= 2 * turns

QuoteChars == {"\"", "'"}
\* t without one matching pair of surrounding quote characters
OneLayerRemoved(t) ==
    IF Len(t) >= 2 /\ t[1] \in QuoteChars /\ t[Len(t)] = t[1] THEN Slice1m1(t) ELSE t

\* C15: for every text the rewriter model returns, the rewritten query is
\* the trimmed text without one matching pair of surrounding quote
\* characters, if it has one; an inner layer of quotes is kept.
C15_OneQuoteLayerRemoved ==
    (san_pc = "done" /\ response.kind = "text") =>
        sanitized = Some(OneLayerRemoved(Strip(response.text)))

\* the result of the request with locals r when it is executed alone, on a
\* thread without saved channel values: its own query and history, the
\* documents its own retrieval found and the answer its own synthesis
\* call returned
OwnNodeOut(r) ==
    IF "wiki" \notin agents THEN NotConfiguredOut
    ELSE IF "wiki" \notin vector_stores THEN NoStoreOut
    ELSE LET d == Last(r.retrievals).result
         IN  IF d = <<>> THEN NoDocsOut(r.effective_query, r.rewritten)
             ELSE AnswerOut(r.synth_resp.answer, d, AssembleContext(d),
                            FinalQuery(r.rewritten, r.run_query), r.rewritten)

AloneResult(r) ==
    LET s0 == InitialState(EmptyState, r.run_query, r.state.chat_history)
        s1 == ApplyWrites(s0, Timed("wiki_agent", OwnNodeOut(r), s0))
        s2 == ApplyWrites(s1, Timed("finish_wiki", FinishWikiOut(s1), s1))
    IN  RunResult(s2, r.run_query)

WithoutDocuments(events) ==
    \A i \in 1..Len(events) :
        events[i].doc_count = 0 /\ "context_preview" \notin DOMAIN events[i]

\* C16: in any sequence of runs on one workflow (same thread id, same
\* checkpointer) a run returns what it returns when executed alone; a run
\* that ends with the "no documents" or the configuration-missing answer
\* returns no context_docs and only its own two diagnostic events.
C16_FreshStatePerRequest ==
    run_status = "returned" =>
        /\ result = AloneResult(RunLocals)
        /\ result.answer \in {NO_DOCS_ANSWER, NOT_CONFIGURED_ANSWER} =>
               /\ result.context_docs = <<>>
               /\ EventNames(result.diag_events) = <<"wiki_agent", "finish_wiki">>
               /\ WithoutDocuments(result.diag_events)

C16_Witness ==
    /\ run_status = "returned"
    /\ prev_returned_docs
    /\ result.answer = NO_DOCS_ANSWER
    /\ result.context_docs = <<>>
    /\ Len(result.diag_events) = 2

\* C17: every document or chunk made from a file carries the metadata keys
\* source, type and filename; source is the path of that file and filename
\* its name, whatever the front-matter of the file declares.
C17_BaseMetadataKept ==
    file_pc = "done" =>
        \A i \in 1..Len(file_docs) :
            LET md == file_docs[i].metadata
            IN  /\ {"source", "type", "filename"} \subseteq DOMAIN md
                /\ md.source = <<file.path>>
                /\ md.filename = <<file.name>>

\* the front-matter block of a content and the content after the block
Fenced(content) ==
    content # <<>> /\ content[1] = FENCE /\ Len(SplitFence(content)) >= 3
BlockOf(content) == SplitFence(content)[2]
AfterBlock(content) == SplitFence(content)[3]
BaseKeys == {"source", "type", "filename"}
PageContents(ds) == [i \in 1..Len(ds) |-> ds[i].page_content]
BodyDocuments(body) == IF enable_chunking THEN SplitText(body) ELSE <<body>>

\* C18: for a readable file that starts with a fenced block: if the block
\* parses as a mapping, its keys are in the metadata and the body of the
\* documents is made of the content after the block only; if the block
\* fails to parse (a YAML error), the body is made of the whole content and
\* the metadata has the base keys only.
C18_FrontMatterSeparated ==
    (file_pc = "done" /\ file.readable /\ Fenced(file.content)) =>
        LET loaded == yaml_safe_load(BlockOf(file.content))
        IN  /\ loaded.kind = "mapping" =>
                  /\ PageContents(file_docs)
                         = BodyDocuments(RenderText(AfterBlock(file.content)))
                  /\ \A i \in 1..Len(file_docs) :
                         DOMAIN FrontMatterMetadata(loaded.fm)
                             \subseteq DOMAIN file_docs[i].metadata
            /\ loaded.kind = "YAMLError" =>
                  /\ PageContents(file_docs) = BodyDocuments(RenderText(file.content))
                  /\ \A i \in 1..Len(file_docs) :
                         DOMAIN file_docs[i].metadata = BaseKeys

\* a file whose processing fails: it cannot be read, or its front-matter
\* raises an error that is not a YAML error
FileFails(f) ==
    \/ ~f.readable
    \/ Fenced(f.content) /\ yaml_safe_load(BlockOf(f.content)).kind = "ValueError"

RECURSIVE IngestedFrom(_)
IngestedFrom(files) ==
    IF files = <<>> THEN <<>>
    ELSE (IF Head(files).is_file /\ ~FileFails(Head(files))
          THEN process_markdown_file(Head(files), enable_chunking).docs
          ELSE <<>>)
         \o IngestedFrom(Tail(files))

\* C19: a file that fails contributes no chunk and does not stop the
\* directory ingestion: the loop visits every file, and the ingested
\* sequence is the concatenation, in listing order, of the chunks of the
\* files that did not fail.
C19_FailSoftPerFile ==
    /\ dir_pc # "aborted"
    /\ dir_pc = "loop" => all_docs = IngestedFrom(SubSeq(wiki_files, 1, file_idx - 1))
    /\ dir_pc = "done" =>
           /\ all_docs = IngestedFrom(wiki_files)
           /\ file_idx = Len(wiki_files) + 1
           /\ processed_files
                  = Cardinality({i \in 1..Len(wiki_files) : wiki_files[i].is_file})

C19_Witness ==
    /\ dir_pc = "done"
    /\ Len(wiki_files) = 3
    /\ ~wiki_files[1].readable /\ wiki_files[1].is_file
    /\ FileFails(wiki_files[2]) /\ wiki_files[2].readable
    /\ ~FileFails(wiki_files[3]) /\ wiki_files[3].is_file
    /\ all_docs # <<>>
    /\ \A i \in 1..Len(all_docs) : all_docs[i].metadata.source = <<wiki_files[3].path>>

\* C20: in every interleaving of two runs on one workflow (same thread id,
\* same checkpointer, read-only indices) each run returns the answer,
\* context_docs and diagnostics it returns when executed alone.
C20_ConcurrentRunsIndependent ==
    /\ run_status = "returned" => result = AloneResult(RunLocals)
    /\ suspended.run_status = "returned" => suspended.result = AloneResult(suspended)

\* a run has returned "no documents" while the other run, which found
\* documents, is between its two nodes, and the checkpointer holds the
\* channel values of the run that returned
C20_Witness ==
    /\ run_status = "returned"
    /\ result.answer = NO_DOCS_ANSWER
    /\ result.context_docs = <<>>
    /\ suspended.pc = "finish_wiki"
    /\ suspended.state.wiki_context_docs # <<>>
    /\ checkpoint.wiki_answer = NO_DOCS_ANSWER
    /\ checkpoint.source = "wiki"

SynthCalls == {i \in 1..Len(llm_calls) : llm_calls[i].kind = "synth"}
RewriteExists == ~rewritten.none /\ rewritten.val # <<>>

\* C21: the user turn of the synthesis call is the rewritten query when a
\* non-empty rewrite exists and the original query otherwise, also when
\* the documents were found by the fallback retrieval with the original
\* query; the call is made of the system instruction with the context
\* and this one user turn, without chat history, and is issued once.
C21_SynthesisUserTurn ==
    /\ Cardinality(SynthCalls) <= 1
    /\ \A i \in SynthCalls :
           /\ i = Len(llm_calls)
           /\ llm_calls[i].human = IF RewriteExists THEN rewritten.val ELSE run_query
           /\ llm_calls[i].history = <<>>
           /\ llm_calls[i].context = AssembleContext(Last(retrievals).result)

C21_Witness ==
    /\ run_status = "returned"
    /\ Len(retrievals) = 2
    /\ retrievals[2].stage = "fallback"
    /\ retrievals[2].query = run_query
    /\ retrievals[2].result # <<>>
    /\ RewriteExists
    /\ rewritten.val # run_query
    /\ Last(llm_calls).kind = "synth"
    /\ Last(llm_calls).human = rewritten.val

=============================================================================
